---- MODULE Spec2Model ----
(***************************************************************************)
(* Reading Archive batch ingestion: scripts/batch_pdf_to_ppt.py driving    *)
(* scripts/process_pdf.py.                                                 *)
(*                                                                         *)
(* Representation.  A Python str that the code inspects character by       *)
(* character (file stems, titles, authors, slugs, paths) is a sequence of  *)
(* tokens, one token per character; a path built with an f-string keeps    *)
(* its fixed prefix and suffix as one token each.  None, and a key that a  *)
(* dict does not hold (dict.get yields None for both), is the sequence     *)
(* None, whose single token is no character.  Dates and descriptions are   *)
(* only compared or looked up, and are TLA+ strings, "" for an absent one. *)
(***************************************************************************)
EXTENDS Integers, Sequences, FiniteSets, TLC

(***************************************************************************)
(* Bounds of the model.                                                    *)
(***************************************************************************)
MaxRetries == 2
MaxFiles == 2
MaxStoreOps == 2

(***************************************************************************)
(* Characters.                                                             *)
(***************************************************************************)
None == <<"None">>

\* U+0060 cannot be written inside a TLA+ string: this token stands for it.
Grave == "GRAVE"

AsciiPrintable ==
    << " ", "!", "\"", "#", "$", "%", "&", "'", "(", ")", "*", "+", ",", "-", ".", "/",
       "0", "1", "2", "3", "4", "5", "6", "7", "8", "9", ":", ";", "<", "=", ">", "?",
       "@", "A", "B", "C", "D", "E", "F", "G", "H", "I", "J", "K", "L", "M", "N", "O",
       "P", "Q", "R", "S", "T", "U", "V", "W", "X", "Y", "Z", "[", "\\", "]", "^", "_",
       Grave, "a", "b", "c", "d", "e", "f", "g", "h", "i", "j", "k", "l", "m", "n", "o",
       "p", "q", "r", "s", "t", "u", "v", "w", "x", "y", "z", "{", "|", "}", "~" >>

\* ord(c): the code point; the printable ASCII table starts at 32, tab is 9.
OrdTable ==
    [c \in {AsciiPrintable[i] : i \in 1..Len(AsciiPrintable)} \cup {"\t"} |->
        IF c = "\t" THEN 9
        ELSE 31 + (CHOOSE i \in 1..Len(AsciiPrintable) : AsciiPrintable[i] = c)]

Ord(c) == OrdTable[c]

IsUpper(c) == Ord(c) >= Ord("A") /\ Ord(c) <= Ord("Z")
IsLowerLetter(c) == Ord(c) >= Ord("a") /\ Ord(c) <= Ord("z")
IsDigit(c) == Ord(c) >= Ord("0") /\ Ord(c) <= Ord("9")

\* str.lower() on one ASCII character.
LowerChar(c) == IF IsUpper(c) THEN AsciiPrintable[Ord(c) + 32 - 31] ELSE c

\* str.lower()
Lower(s) == [i \in 1..Len(s) |-> LowerChar(s[i])]

\* regex \s on the characters of the model
IsSpace(c) == c \in {" ", "\t"}

\* regex [\w\-] on ASCII: letters, digits, underscore, hyphen
IsWordOrHyphen(c) == IsUpper(c) \/ IsLowerLetter(c) \/ IsDigit(c) \/ c \in {"_", "-"}

\* The characters of the model that regex \s matches
SpaceChars == {c \in DOMAIN OrdTable : IsSpace(c)}

\* The characters of the model that regex [^\w\-] matches
NonWordChars == {c \in DOMAIN OrdTable : ~IsWordOrHyphen(c)}

\* Python's str comparison: lexicographic by code point.
RECURSIVE StrLess(_, _)
StrLess(s, t) ==
    IF t = <<>> THEN FALSE
    ELSE IF s = <<>> THEN TRUE
    ELSE IF Ord(Head(s)) # Ord(Head(t)) THEN Ord(Head(s)) < Ord(Head(t))
    ELSE StrLess(Tail(s), Tail(t))

\* str.strip(chars)
RECURSIVE LStrip(_, _)
LStrip(s, chars) ==
    IF s # <<>> /\ Head(s) \in chars THEN LStrip(Tail(s), chars) ELSE s

RECURSIVE RStrip(_, _)
RStrip(s, chars) ==
    IF s # <<>> /\ s[Len(s)] \in chars THEN RStrip(SubSeq(s, 1, Len(s) - 1), chars) ELSE s

Strip(s, chars) == RStrip(LStrip(s, chars), chars)

\* re.sub(r"<class>+", rep, s): every maximal run of characters of the class
\* becomes the single character rep.
SubRuns(s, class, rep) ==
    LET positions == [i \in 1..Len(s) |-> i]
        \* a character outside the class stays; of a run only the first counts
        kept == SelectSeq(positions,
                          LAMBDA i : s[i] \notin class \/ i = 1 \/ s[i - 1] \notin class)
    IN  [k \in 1..Len(kept) |-> IF s[kept[k]] \in class THEN rep ELSE s[kept[k]]]

(***************************************************************************)
(* process_pdf.slugify                                                     *)
(***************************************************************************)
Book == <<"b", "o", "o", "k">>

\* The substitutions without the fallback of line 390.
slugify_no_fallback(value) ==
    SubRuns(Strip(SubRuns(Lower(value), NonWordChars, "-"), {"-"}), {"-"}, "-")

\* The hyphens stripped before the substitution instead of after it.
slugify_strip_first(value) ==
    LET step1 == SubRuns(Strip(Lower(value), {"-"}), NonWordChars, "-")
        step3 == SubRuns(step1, {"-"}, "-")
    IN  IF step3 = <<>> THEN Book ELSE step3

\* re.sub(r"[^\w\-]+", "-", value.lower()).strip("-"), then
\* re.sub(r"-+", "-", slug) or "book"
slugify(value) ==
    LET step1 == SubRuns(Lower(value), NonWordChars, "-")
        slug  == Strip(step1, {"-"})
        step3 == SubRuns(slug, {"-"}, "-")
    IN  IF step3 = <<>> THEN Book ELSE step3

(***************************************************************************)
(* batch_pdf_to_ppt.normalize_segment, parse_title_author                  *)
(***************************************************************************)
DELIMITER == <<" ", "-", "-", " ">>

Untitled == <<"U", "n", "t", "i", "t", "l", "e", "d">>

normalize_segment(text) ==
    LET cleaned1 == [i \in 1..Len(text) |-> IF text[i] = "_" THEN " " ELSE text[i]]
        cleaned2 == SubRuns(cleaned1, SpaceChars, " ")
    IN  Strip(cleaned2, {" ", "_", "-", "\t"})

\* s.rfind(DELIMITER) + 1: the last occurrence instead of the first.
DelimiterAt_last(s) ==
    LET hits == {i \in 1..(Len(s) - Len(DELIMITER) + 1) :
                    SubSeq(s, i, i + Len(DELIMITER) - 1) = DELIMITER}
    IN  IF hits = {} THEN 0 ELSE CHOOSE i \in hits : \A j \in hits : i >= j

\* s.find(DELIMITER) + 1, or 0 when the delimiter does not occur
DelimiterAt(s) ==
    LET hits == {i \in 1..(Len(s) - Len(DELIMITER) + 1) :
                    SubSeq(s, i, i + Len(DELIMITER) - 1) = DELIMITER}
    IN  IF hits = {} THEN 0 ELSE CHOOSE i \in hits : \A j \in hits : i <= j

\* The pair (title, author); author is None when absent.
parse_title_author(stem) ==
    LET at == DelimiterAt(stem)
    IN  IF at = 0
        THEN LET t == normalize_segment(stem)
             IN  [title |-> IF t = <<>> THEN Untitled ELSE t, author |-> None]
        ELSE LET first     == SubSeq(stem, 1, at - 1)
                 remainder == SubSeq(stem, at + Len(DELIMITER), Len(stem))
                 t         == normalize_segment(first)
                 title     == IF t = <<>> THEN Untitled ELSE t
                 at2       == DelimiterAt(remainder)
                 author_segment ==
                     IF at2 # 0 THEN SubSeq(remainder, 1, at2 - 1) ELSE remainder
                 author    == normalize_segment(author_segment)
             IN  IF remainder = <<>>
                 THEN [title |-> title, author |-> None]
                 ELSE [title |-> title,
                       author |-> IF author = <<>> THEN None ELSE author]

(***************************************************************************)
(* Manifest entries and the manifest file (data/books.json).               *)
(*                                                                         *)
(* A JSON object is a record with the eight keys of a book entry; a key    *)
(* the object lacks holds None ("" for date and description).  Any other   *)
(* JSON value is a record [json |-> its type, has_slug |-> whether         *)
(* "slug" in value is true for it].                                        *)
(***************************************************************************)
DEFAULT_COVER == <<"assets/covers/default.svg">>

PresentationRel(slug) == <<"presentations/">> \o slug \o <<".html">>

CoverRel(slug) == <<"assets/covers/">> \o slug \o <<".jpg">>

IsObject(v) == "slug" \in DOMAIN v

\* "slug" in entry, for an element of the manifest array
HasSlugKey(v) == IF IsObject(v) THEN v.slug # None ELSE v.has_slug

\* dt.date.fromisoformat on the date strings of the model, as the proleptic
\* ordinal of the date; 0 stands for ValueError.
DateMin == 1

fromisoformat(date_str) ==
    CASE date_str = "0001-01-01" -> DateMin
      [] date_str = "2023-03-01" -> 738580
      [] date_str = "2024-05-01" -> 739007
      [] date_str = "2025-01-15" -> 739266
      [] OTHER -> 0

\* sort_key without the fallback of line 576: a date that does not parse
\* orders below every date.
sort_key_unparsed_lowest(item) ==
    [date  |-> fromisoformat(item.date),
     title |-> IF item.title = None THEN <<>> ELSE item.title]

\* update_manifest.sort_key: the pair (date, title)
sort_key(item) ==
    LET d == fromisoformat(item.date)
    IN  [date  |-> IF d = 0 THEN DateMin ELSE d,
         title |-> IF item.title = None THEN <<>> ELSE item.title]

\* Python's tuple comparison k1 < k2
KeyLess(k1, k2) ==
    \/ k1.date < k2.date
    \/ k1.date = k2.date /\ StrLess(k1.title, k2.title)

\* list.sort(key=sort_key, reverse=True): descending, and stable (records
\* with equal keys keep their order).
RECURSIVE SortDescending(_)
SortDescending(records) ==
    IF records = <<>> THEN <<>>
    ELSE LET front == SortDescending(SubSeq(records, 1, Len(records) - 1))
             x     == records[Len(records)]
             \* x goes after every record whose key is not less than its own
             n     == Cardinality({i \in 1..Len(front) :
                                     ~KeyLess(sort_key(front[i]), sort_key(x))})
         IN  SubSeq(front, 1, n) \o <<x>> \o SubSeq(front, n + 1, Len(front))

MissingFile == [kind |-> "missing", records |-> <<>>]

ArrayFile(records) == [kind |-> "array", records |-> records]

\* json.loads(DATA_FILE.read_text()) as update_manifest and
\* load_existing_slugs use it: the array, or the reason there is none.
ReadRecords(file) == IF file.kind = "array" THEN file.records ELSE <<>>

\* update_manifest without the filter of line 568.
update_manifest_unfiltered(file, entry) ==
    LET records == ReadRecords(file)
    IN  IF records # <<>> /\ ~IsObject(records[1])
        THEN [raised |-> "AttributeError", file |-> file]
        ELSE IF records # <<>> /\ entry.slug = None
        THEN [raised |-> "KeyError", file |-> file]
        ELSE IF \E i \in 1..Len(records) : ~IsObject(records[i])
        THEN [raised |-> "AttributeError", file |-> file]
        ELSE [raised |-> "none",
              file   |-> ArrayFile(SortDescending(Append(records, entry)))]

\* update_manifest with the filter of line 568 inverted (== for !=).
update_manifest_inverted(file, entry) ==
    LET records == ReadRecords(file)
        kept    == SelectSeq(records, LAMBDA r : r.slug = entry.slug)
    IN  IF records # <<>> /\ ~IsObject(records[1])
        THEN [raised |-> "AttributeError", file |-> file]
        ELSE IF records # <<>> /\ entry.slug = None
        THEN [raised |-> "KeyError", file |-> file]
        ELSE IF \E i \in 1..Len(records) : ~IsObject(records[i])
        THEN [raised |-> "AttributeError", file |-> file]
        ELSE [raised |-> "none",
              file   |-> ArrayFile(SortDescending(Append(kept, entry)))]

\* process_pdf.update_manifest: the file afterwards, and the exception raised.
\* The filter evaluates r.get("slug") and then entry["slug"] for each record
\* in turn: a record that is no object raises AttributeError, an entry
\* without the key raises KeyError as soon as there is a record to compare.
update_manifest(file, entry) ==
    LET records == ReadRecords(file)
        kept    == SelectSeq(records, LAMBDA r : r.slug # entry.slug)
    IN  IF records # <<>> /\ ~IsObject(records[1])
        THEN [raised |-> "AttributeError", file |-> file]
        ELSE IF records # <<>> /\ entry.slug = None
        THEN [raised |-> "KeyError", file |-> file]
        ELSE IF \E i \in 1..Len(records) : ~IsObject(records[i])
        THEN [raised |-> "AttributeError", file |-> file]
        ELSE [raised |-> "none",
              file   |-> ArrayFile(SortDescending(Append(kept, entry)))]

EmptyMap == [s \in {} |-> None]

\* batch_pdf_to_ppt.load_existing_slugs: the mapping, and the exception raised.
load_existing_slugs(file) ==
    LET records == ReadRecords(file)
        \* an element that is no object raises: TypeError when it is not a
        \* container, AttributeError on .get when "slug" in element is true
        Raises(v) == ~IsObject(v) /\ (v.json \in {"number", "null"} \/ v.has_slug)
        bad   == {i \in 1..Len(records) : Raises(records[i])}
        first == CHOOSE i \in bad : \A j \in bad : i <= j
        keyed == {i \in 1..Len(records) : IsObject(records[i]) /\ HasSlugKey(records[i])}
        slugs == {records[i].slug : i \in keyed}
        last(s) == CHOOSE i \in keyed :
                      /\ records[i].slug = s
                      /\ \A j \in keyed : records[j].slug = s => j <= i
    IN  IF bad # {}
        THEN [raised |-> IF records[first].json \in {"number", "null"}
                         THEN "TypeError" ELSE "AttributeError",
              map    |-> EmptyMap]
        ELSE [raised |-> "none", map |-> [s \in slugs |-> records[last(s)]]]

(***************************************************************************)
(* The presentation artifact a manifest entry points to, as should_skip    *)
(* finds it on storage.                                                    *)
(***************************************************************************)
ArtifactStates == {"missing", "marked", "unmarked", "oserror", "undecodable"}

\* batch_pdf_to_ppt.has_scroll_nav: "true", "false", or the exception that
\* read_text(encoding="utf-8") raises and the function does not catch.
has_scroll_nav(artifact) ==
    CASE artifact = "oserror"     -> "false"
      [] artifact = "undecodable" -> "UnicodeDecodeError"
      [] artifact = "marked"      -> "true"
      [] OTHER                    -> "false"

\* batch_pdf_to_ppt.should_skip: "true", "false", or the exception raised.
\* artifact is the state of the file the entry's presentation names.
should_skip(slug, existing, force, artifact) ==
    IF force THEN "false"
    ELSE IF slug \notin DOMAIN existing THEN "false"
    ELSE LET pres_rel == existing[slug].presentation
         IN  IF pres_rel = None \/ pres_rel = <<>> THEN "false"
             ELSE IF artifact = "missing" THEN "false"
             ELSE has_scroll_nav(artifact)

\* persist_entry without the guard of lines 154-155.
persist_entry_unguarded(result, existing, file) ==
    LET upd == update_manifest(file, result)
    IN  IF upd.raised # "none"
        THEN [raised |-> upd.raised, file |-> file, existing |-> existing,
              writes |-> 0]
        ELSE [raised   |-> "none",
              file     |-> upd.file,
              existing |-> (result.slug :> result) @@ existing,
              writes   |-> 1]

\* batch_pdf_to_ppt.persist_entry: the manifest file and the slug map
\* afterwards, and the exception raised.
persist_entry(result, existing, file) ==
    IF result.slug = None \/ result.slug = <<>>
    THEN [raised |-> "none", file |-> file, existing |-> existing, writes |-> 0]
    ELSE LET upd == update_manifest(file, result)
         IN  IF upd.raised # "none"
             THEN [raised |-> upd.raised, file |-> file, existing |-> existing,
                   writes |-> 0]
             ELSE [raised   |-> "none",
                   file     |-> upd.file,
                   existing |-> (result.slug :> result) @@ existing,
                   writes   |-> 1]

(***************************************************************************)
(* State.                                                                  *)
(***************************************************************************)
VARIABLES
    pc,          \* where main is: "start", "head", "decide", "attempt", "sleep",
                 \* "summary", "done", "aborted"; "store" in SpecStore
    args,        \* the parsed command line (main, lines 592-600)
    pdf_files,   \* main's pdf_files: the stems of the files to process
    idx,         \* position of the for loop in pdf_files
    cur,         \* main's title, author and slug for the current file
    data_file,   \* DATA_FILE on storage: [kind, records]
    existing,    \* main's existing: slug -> entry
    artifacts,   \* presentation path -> state of the file on storage, for
                 \* the paths this run has written
    size_bytes,  \* main's size_bytes once the current file's size is taken,
                 \* until run_pipeline is first called for it; 0 otherwise
    successes,   \* main's successes
    failures,    \* main's failures: [file, error, attempts]
    attempts,    \* run_with_retries: attempts
    last_error,  \* run_with_retries: last_error
    ret,         \* what run_with_retries returned last: [ok, error, attempts]
    calls,       \* run_pipeline invocations made for the current file
    sleeps,      \* time.sleep(1.0) calls made for the current file
    ai_calls,    \* call_gemini invocations made for the current file
    git,         \* the git commands the last run_pipeline call executed
    scan,        \* SpecEnum: the --file-list file, the enumeration strategies
                 \* invoked with what each produced, and the sidecar file
    at_start,    \* DATA_FILE as it was when the current file was taken up
    outcomes,    \* per file main is done with: [file, slug, branch]
    status,      \* main's return value, -1 while it runs
    op,          \* SpecStore, SpecSkip: the last operation applied and what it
                 \* returned; in a run of main: DATA_FILE as main found it
    nops         \* operations applied to DATA_FILE: in SpecStore so far, in a
                 \* run of main the rewrites for the current file

batchVars == <<args, scan, pdf_files, idx, cur, artifacts, size_bytes, successes, failures, attempts,
               last_error, ret, calls, sleeps, ai_calls, git, at_start, outcomes,
               status>>

vars == <<pc, data_file, existing, op, nops, batchVars>>

NoArgs == [retries |-> 0, force |-> FALSE, dry_run |-> FALSE,
           commit |-> FALSE, push |-> FALSE]

NoError == [kind |-> "none", at |-> 0]

NoReturn == [ok |-> FALSE, error |-> NoError, attempts |-> 0]

NoOp == [name |-> "none"]

NoList == [state |-> "none", lines |-> <<>>]

NoScan == [list |-> NoList, invoked |-> <<>>, produced |-> <<>>,
           source |-> "none", sidecar |-> "absent"]

NoCur == [title |-> <<>>, author |-> None, slug |-> <<>>]

BatchIdle ==
    /\ args = NoArgs
    /\ pdf_files = <<>>
    /\ idx = 0
    /\ cur = NoCur
    /\ artifacts = EmptyMap
    /\ size_bytes = 0
    /\ successes = <<>>
    /\ failures = <<>>
    /\ attempts = 0
    /\ last_error = NoError
    /\ ret = NoReturn
    /\ calls = 0
    /\ sleeps = 0
    /\ ai_calls = 0
    /\ git = {}
    /\ scan = NoScan
    /\ at_start = MissingFile
    /\ outcomes = <<>>
    /\ status = -1

(***************************************************************************)
(* SpecStore: the manifest store and the skip decision, applied to the     *)
(* manifest files and entries below.                                       *)
(***************************************************************************)
Str(c) == <<c>>

Entry(slug, title, author, date, tags, description, presentation, cover) ==
    [slug |-> slug, title |-> title, author |-> author, date |-> date,
     tags |-> tags, description |-> description,
     presentation |-> presentation, cover |-> cover]

\* Entries as earlier runs and hand edits leave them in the manifest.
EA1 == Entry(Str("a"), Str("A"), None, "2024-05-01", <<"t">>, "d",
             PresentationRel(Str("a")), CoverRel(Str("a")))
EA2 == Entry(Str("a"), Str("B"), Str("w"), "", <<>>, "", None, DEFAULT_COVER)
EB1 == Entry(Str("b"), Str("A"), None, "2024-05-01", <<>>, "",
             PresentationRel(Str("b")), DEFAULT_COVER)
EB2 == Entry(Str("b"), Str("A"), None, "soon", <<>>, "", <<>>, DEFAULT_COVER)
EC1 == Entry(Str("c"), Str("A"), None, "0001-01-01", <<>>, "",
             PresentationRel(Str("c")), DEFAULT_COVER)
ENoSlug == Entry(None, Str("Z"), None, "2025-01-15", <<>>, "",
                 PresentationRel(Str("z")), DEFAULT_COVER)
EEmptySlug == Entry(<<>>, Str("Z"), None, "2025-01-15", <<>>, "",
                    PresentationRel(Str("z")), DEFAULT_COVER)

JsonNumber == [json |-> "number", has_slug |-> FALSE]
JsonString == [json |-> "string", has_slug |-> FALSE]

\* What update_manifest is given: every caller passes a non-empty slug.
UpsertEntries == {EA1, EA2, EB1, EB2, EC1}

\* What persist_entry may be given.
PersistResults == {EA1, EB2, ENoSlug, EEmptySlug}

StoredValues == UpsertEntries \cup {ENoSlug, JsonNumber, JsonString}

SeqsUpTo(S, n) == UNION {[1..k -> S] : k \in 0..n}

InitialArrayLen == 2

StoreFiles ==
    {MissingFile, [kind |-> "invalid", records |-> <<>>],
     [kind |-> "scalar", records |-> <<>>]}
    \cup {ArrayFile(r) : r \in SeqsUpTo(StoredValues, InitialArrayLen)}

InitStore ==
    /\ pc = "store"
    /\ data_file \in StoreFiles
    /\ existing = EmptyMap
    /\ op = NoOp
    /\ nops = 0
    /\ BatchIdle

StoreLoad ==
    /\ pc = "store" /\ nops < MaxStoreOps
    /\ LET r == load_existing_slugs(data_file)
       IN  /\ existing' = IF r.raised = "none" THEN r.map ELSE existing
           /\ op' = [name |-> "load", raised |-> r.raised, result |-> r.map]
    /\ nops' = nops + 1
    /\ UNCHANGED <<pc, data_file, batchVars>>

StoreUpdate ==
    /\ pc = "store" /\ nops < MaxStoreOps
    /\ \E e \in UpsertEntries :
          LET r == update_manifest(data_file, e)
          IN  /\ data_file' = r.file
              /\ op' = [name |-> "update_manifest", raised |-> r.raised,
                        entry |-> e, file_before |-> data_file]
    /\ nops' = nops + 1
    /\ UNCHANGED <<pc, existing, batchVars>>

StorePersist ==
    /\ pc = "store" /\ nops < MaxStoreOps
    /\ \E result \in PersistResults :
          LET r == persist_entry(result, existing, data_file)
          IN  /\ data_file' = r.file
              /\ existing' = r.existing
              /\ op' = [name |-> "persist_entry", raised |-> r.raised,
                        entry |-> result, file_before |-> data_file,
                        existing_before |-> existing]
    /\ nops' = nops + 1
    /\ UNCHANGED <<pc, batchVars>>

NextStore == StoreLoad \/ StoreUpdate \/ StorePersist

SpecStore == InitStore /\ [][NextStore]_vars

(***************************************************************************)
(* SpecSkip: should_skip applied to the slug map loaded from a manifest    *)
(* file, for every force flag and every state of the artifact.             *)
(***************************************************************************)
SkipSlugs == {Str("a"), Str("b"), Str("z")}

InitSkip ==
    /\ pc = "skip"
    /\ data_file \in StoreFiles
    /\ load_existing_slugs(data_file).raised = "none"
    /\ existing = load_existing_slugs(data_file).map
    /\ op = NoOp
    /\ nops = 0
    /\ BatchIdle

SkipDecide ==
    /\ pc = "skip"
    /\ \E slug \in SkipSlugs, force \in BOOLEAN, artifact \in ArtifactStates :
          op' = [name |-> "should_skip", slug |-> slug, force |-> force,
                 artifact |-> artifact,
                 result |-> should_skip(slug, existing, force, artifact)]
    /\ nops' = 1
    /\ UNCHANGED <<pc, data_file, existing, batchVars>>

SpecSkip == InitSkip /\ [][SkipDecide]_vars

(***************************************************************************)
(* Spec: one run of batch_pdf_to_ppt.main.                                 *)
(***************************************************************************)
MAX_PDF_SIZE == 80 * 1024 * 1024

\* dt.date.today().isoformat() during the run
TodayDates == {"2025-01-15"}

\* The uploads directory holds some of these files (stems of *.pdf names).
StemA == <<"A">>
StemAB == <<"a", " ", "-", "-", " ", "b">>
StemB == <<"b", "_">>

Catalogue == {StemA, StemAB, StemB}

PdfName(stem) == stem \o <<".", "p", "d", "f">>

\* sorted(uploads_dir.glob(pattern)): no path twice, ascending by name
IsSortedPaths(files) ==
    \A i \in 1..(Len(files) - 1) : StrLess(PdfName(files[i]), PdfName(files[i + 1]))

FileLists == {f \in SeqsUpTo(Catalogue, MaxFiles) : IsSortedPaths(f)}

\* st_size of a file
FileSizes == {MAX_PDF_SIZE, MAX_PDF_SIZE + 1}

\* An entry an early revision stored under the title+author slug.
ELegacy == Entry(<<"a", "-", "b">>, Str("a"), Str("b"), "2023-03-01", <<>>, "",
                 PresentationRel(<<"a", "-", "b">>), DEFAULT_COVER)

BatchManifests ==
    {MissingFile, ArrayFile(<<EA1>>), ArrayFile(<<ELegacy>>),
     ArrayFile(<<EA1, ELegacy>>),
     ArrayFile(<<JsonNumber>>), ArrayFile(<<EB2, JsonString>>)}

\* /Author of the PDF's own metadata, used when the file name gives none
MetadataAuthors == {None}

\* Whether extract_cover succeeds inside run_pipeline
PipelineCovers == {TRUE}

InitBatch ==
    /\ pc = "start"
    /\ data_file \in BatchManifests
    /\ existing = EmptyMap
    /\ op = NoOp
    /\ nops = 0
    /\ BatchIdle

Max(a, b) == IF a >= b THEN a ELSE b

\* --retries values combined with every flag; larger values come without flags.
FlaggedRetries == -1..1

\* The command lines of the model: every retry count without any flag; for
\* the retry counts of FlaggedRetries also every combination of --force and
\* --dry-run, and every combination of --commit and --push on a run
\* without --force and --dry-run.
CommandLines ==
    {a \in [retries : -1..MaxRetries, force : BOOLEAN, dry_run : BOOLEAN,
            commit : BOOLEAN, push : BOOLEAN] :
        /\ (a.commit \/ a.push) => (~a.force /\ ~a.dry_run)
        /\ (a.force \/ a.dry_run \/ a.commit \/ a.push) => a.retries \in FlaggedRetries}

\* main, lines 592-630: arguments, the file set, the slug map.
MainStart ==
    /\ pc = "start"
    /\ \E given \in CommandLines, uploads_exists \in BOOLEAN, files \in FileLists :
          LET loaded == load_existing_slugs(data_file)
          IN  /\ args' = [given EXCEPT !.retries = Max(0, given.retries)]
              /\ IF ~uploads_exists \/ files = <<>>
                 THEN /\ pc' = "done"
                      /\ status' = 0
                      /\ UNCHANGED <<pdf_files, idx, existing>>
                 ELSE IF loaded.raised # "none"
                 THEN /\ pc' = "aborted"
                      /\ pdf_files' = files
                      /\ UNCHANGED <<status, idx, existing>>
                 ELSE /\ pc' = "head"
                      /\ pdf_files' = files
                      /\ idx' = 1
                      /\ existing' = loaded.map
                      /\ UNCHANGED status
    /\ op' = [name |-> "main", file_before |-> data_file]
    /\ UNCHANGED <<data_file, nops, scan, cur, artifacts, size_bytes, successes,
                   failures, attempts, last_error, ret, calls, sleeps, ai_calls, git,
                   at_start, outcomes>>

\* main, lines 633-635: title, author, primary and legacy slug, from the
\* parsed file name.
SlugCandidates(parsed) ==
    [title        |-> parsed.title,
     author       |-> parsed.author,
     primary_slug |-> slugify(parsed.title),
     legacy_slug  |-> IF parsed.author # None
                      THEN slugify(parsed.title \o <<" ">> \o parsed.author)
                      ELSE None]

FileMeta == [stem \in Catalogue |-> SlugCandidates(parse_title_author(stem))]

\* The legacy slug preferred whenever the map knows it.
ChooseSlug_legacy_whenever_known(meta, known) ==
    [title  |-> meta.title,
     author |-> meta.author,
     slug   |-> IF /\ meta.legacy_slug # None
                   /\ meta.legacy_slug \in DOMAIN known
                THEN meta.legacy_slug ELSE meta.primary_slug]

\* main, lines 636-639: the slug chosen for a file, given the slug map.
ChooseSlug(meta, known) ==
    [title  |-> meta.title,
     author |-> meta.author,
     slug   |-> IF /\ meta.legacy_slug # None
                   /\ meta.legacy_slug \in DOMAIN known
                   /\ meta.primary_slug \notin DOMAIN known
                THEN meta.legacy_slug ELSE meta.primary_slug]

Chosen(stem, known) == ChooseSlug(FileMeta[stem], known)

\* main, lines 632-639: the head of the for loop fixes the title, the author
\* and the slug of the file.
LoopHead ==
    /\ pc = "head"
    /\ cur' = Chosen(pdf_files[idx], existing)
    /\ size_bytes' = 0
    /\ nops' = 0
    /\ pc' = "decide"
    /\ UNCHANGED <<args, scan, pdf_files, idx, data_file, existing, op, artifacts,
                   successes, failures, attempts, last_error, ret, calls,
                   sleeps, ai_calls, git, at_start, outcomes, status>>

\* The file should_skip would look at for the current slug, None when it
\* returns before looking at storage.
ArtifactRead ==
    IF args.force \/ cur.slug \notin DOMAIN existing THEN None
    ELSE IF existing[cur.slug].presentation = <<>> THEN None
    ELSE existing[cur.slug].presentation

\* What storage may hold at a path: what this run wrote there, and otherwise
\* anything earlier runs may have left.
StoredAt(path) ==
    IF path = None THEN {"missing"}
    ELSE IF path \in DOMAIN artifacts THEN {artifacts[path]}
    ELSE ArtifactStates

ArtifactChoices == StoredAt(ArtifactRead)

SkipResult(found) ==
    should_skip(cur.slug, existing, args.force, found)

\* Moving on to the next file of the for loop, or to the summary.
Advance ==
    /\ pc' = IF idx < Len(pdf_files) THEN "head" ELSE "summary"
    /\ idx' = idx + 1

\* What is recorded about a file when main is done with it.
Outcome(branch) == [file |-> pdf_files[idx], slug |-> cur.slug, branch |-> branch]

\* Taking up the next file: nothing has been called for it yet.
TakeUp ==
    /\ calls' = 0
    /\ sleeps' = 0
    /\ ai_calls' = 0
    /\ git' = {}
    /\ attempts' = 0
    /\ last_error' = NoError
    /\ ret' = NoReturn
    /\ at_start' = data_file

\* main, lines 641-643: the file is skipped.
DecideSkip ==
    /\ pc = "decide"
    /\ \E found \in ArtifactChoices : SkipResult(found) = "true"
    /\ TakeUp
    /\ outcomes' = Append(outcomes, Outcome("skipped"))
    /\ Advance
    /\ UNCHANGED <<args, scan, cur, pdf_files, data_file, existing, op, nops, artifacts,
                   size_bytes, successes, failures, status>>

\* main, line 641: should_skip raises, and nothing in main catches it.
DecideRaise ==
    /\ pc = "decide"
    /\ \E found \in ArtifactChoices : SkipResult(found) \notin {"true", "false"}
    /\ TakeUp
    /\ pc' = "aborted"
    /\ UNCHANGED <<args, scan, cur, pdf_files, idx, data_file, existing, op, nops, artifacts,
                   size_bytes, successes, failures, outcomes, status>>

\* main, lines 648-652: the size, 0 when stat() raises OSError
SizeOf(stat_ok, st_size) == IF stat_ok THEN st_size ELSE 0

\* The limit of line 654 with MAX_PDF_SIZE one byte higher.
IsOversized_off_by_one(size) == size > MAX_PDF_SIZE + 1

\* main, line 654
IsOversized(size) == size > MAX_PDF_SIZE

\* A handler that keeps the path of the extracted cover when extract_cover
\* raised.
cover_rel_keeps_path(slug, extracted) == CoverRel(slug)

\* handle_large_pdf, lines 260-268: the cover of the entry
cover_rel(slug, extracted) == IF extracted THEN CoverRel(slug) ELSE DEFAULT_COVER

\* main, lines 645-664, with handle_large_pdf: a file over the limit.
DecideOversized ==
    /\ pc = "decide"
    /\ \E found \in ArtifactChoices, stat_ok \in BOOLEAN, st_size \in FileSizes,
          today \in TodayDates, cover_ok \in BOOLEAN, placeholder_ok \in BOOLEAN :
          LET slug  == cur.slug
              entry == Entry(slug, cur.title, cur.author, today, <<>>, "",
                             PresentationRel(slug), cover_rel(slug, cover_ok))
              upd   == update_manifest(data_file, entry)
          IN  /\ SkipResult(found) = "false"
              /\ IsOversized(SizeOf(stat_ok, st_size))
              /\ size_bytes' = SizeOf(stat_ok, st_size)
              /\ op' = [name |-> "main", file_before |-> op.file_before,
                        extracted |-> cover_ok]
              /\ IF ~placeholder_ok
                 THEN \* write_placeholder_presentation raises OSError (mkdir
                      \* or write_text), and nothing catches it
                      /\ pc' = "aborted"
                      /\ UNCHANGED <<artifacts, data_file, existing, successes,
                                     outcomes, idx, nops>>
                 ELSE IF upd.raised # "none"
                 THEN \* update_manifest raises, and nothing catches it
                      /\ artifacts' = (PresentationRel(slug) :> "unmarked") @@ artifacts
                      /\ pc' = "aborted"
                      /\ UNCHANGED <<data_file, existing, successes, outcomes, idx,
                                     nops>>
                 ELSE /\ artifacts' = (PresentationRel(slug) :> "unmarked") @@ artifacts
                      /\ data_file' = upd.file
                      /\ nops' = nops + 1
                      /\ existing' = (slug :> entry) @@ existing
                      /\ successes' = Append(successes, pdf_files[idx])
                      /\ outcomes' = Append(outcomes, Outcome("oversized"))
                      /\ Advance
    /\ TakeUp
    /\ UNCHANGED <<args, scan, cur, pdf_files, failures, status>>

\* main, lines 645-666, and run_with_retries, lines 303-304: a file within
\* the limit enters the retry loop.
DecideProcess ==
    /\ pc = "decide"
    /\ \E found \in ArtifactChoices, stat_ok \in BOOLEAN, st_size \in FileSizes :
          /\ SkipResult(found) = "false"
          /\ ~IsOversized(SizeOf(stat_ok, st_size))
          /\ size_bytes' = SizeOf(stat_ok, st_size)
    /\ TakeUp
    /\ pc' = "attempt"
    /\ UNCHANGED <<args, scan, cur, pdf_files, idx, data_file, existing, op, nops, artifacts,
                   successes, failures, outcomes, status>>

\* What can go wrong inside run_pipeline, in the order the code reaches it:
\* a package is missing (628), call_gemini raises (665; only without
\* --dry-run), and one of the git commands of git_stage_commit_push exits
\* non-zero (589-593; run with check=True).
Faults == {"none", "MissingDependencyError", "RuntimeError",
           "git add", "git commit", "git push"}

\* process_pdf.git_stage_commit_push: the commands it runs, in order.
git_stage_commit_push(do_commit, do_push) ==
    <<"git add">> \o (IF do_commit
                      THEN <<"git commit">> \o (IF do_push THEN <<"git push">> ELSE <<>>)
                      ELSE <<>>)

\* run_pipeline, lines 695-696: the git commands of one call.
GitCommands(commit, push) ==
    IF commit \/ push THEN git_stage_commit_push(commit, push) ELSE <<>>

InSeq(x, seq) == \E i \in 1..Len(seq) : seq[i] = x

\* The commands executed when the given one fails: those up to it.
UpTo(seq, x) ==
    {seq[i] : i \in {j \in 1..Len(seq) : \A k \in 1..(j - 1) : seq[k] # x}}

IsGitFault(f) == f \in {"git add", "git commit", "git push"}

PossibleFaults ==
    {f \in Faults :
        /\ f = "RuntimeError" => ~args.dry_run
        /\ IsGitFault(f) => InSeq(f, GitCommands(args.commit, args.push))}

\* A pipeline that calls the model under --dry-run too.
gemini_calls_ignoring_dry_run(dry_run) == 1

\* run_pipeline, lines 650-670: call_gemini is called in the else branch of
\* "if dry_run" alone, once.
gemini_calls(dry_run) == IF dry_run THEN 0 ELSE 1

\* process_pdf.run_pipeline for the current file: the exception raised, the
\* manifest file and the artifacts afterwards, the result returned, whether
\* call_gemini was invoked, and the git commands executed.
run_pipeline(fault, cover_ok, marked, meta_author, today) ==
    LET slug   == cur.slug
        author == IF cur.author # None THEN cur.author ELSE meta_author
        entry  == Entry(slug, cur.title, author, today, <<>>, "",
                        PresentationRel(slug),
                        IF cover_ok THEN CoverRel(slug) ELSE DEFAULT_COVER)
        html   == IF ~args.dry_run /\ marked THEN "marked" ELSE "unmarked"
        ai     == gemini_calls(args.dry_run)
        written == (PresentationRel(slug) :> html) @@ artifacts
        upd    == update_manifest(data_file, entry)
        cmds   == GitCommands(args.commit, args.push)
    IN  IF fault = "MissingDependencyError"
        THEN [raised |-> fault, file |-> data_file, artifacts |-> artifacts,
              result |-> entry, ai |-> 0, git |-> {}, writes |-> 0]
        ELSE IF fault = "RuntimeError"
        THEN [raised |-> fault, file |-> data_file, artifacts |-> artifacts,
              result |-> entry, ai |-> ai, git |-> {}, writes |-> 0]
        ELSE IF upd.raised # "none"
        THEN [raised |-> upd.raised, file |-> data_file, artifacts |-> written,
              result |-> entry, ai |-> ai, git |-> {}, writes |-> 0]
        ELSE IF IsGitFault(fault)
        THEN [raised |-> "CalledProcessError", file |-> upd.file,
              artifacts |-> written, result |-> entry, ai |-> ai,
              git |-> UpTo(cmds, fault), writes |-> 1]
        ELSE [raised |-> "none", file |-> upd.file, artifacts |-> written,
              result |-> entry, ai |-> ai, git |-> UpTo(cmds, "none"), writes |-> 1]

Runs ==
    {run_pipeline(fault, cover_ok, marked, meta_author, today) :
        fault \in PossibleFaults, cover_ok \in PipelineCovers, marked \in BOOLEAN,
        meta_author \in MetadataAuthors, today \in TodayDates}

\* run_with_retries, line 306: while attempts <= retries
LoopTest(n, retries) == n <= retries

\* The break of lines 330-331 taken one attempt late.
Exhausted_late(n, retries) == n > retries + 1

\* run_with_retries, lines 330-331: if attempts > retries: break
Exhausted(n, retries) == n > retries

\* run_with_retries, lines 327-328: last_error = exc, in the given attempt
Caught(exc, n) == [kind |-> exc, at |-> n]

\* run_with_retries, lines 326 and 333: the four values returned
Returned(ok, error, n) == [ok |-> ok, error |-> error, attempts |-> n]

\* run_with_retries, lines 306-326, and main, lines 677-680: an attempt
\* succeeds, the result is returned and persisted.
AttemptSucceeds ==
    /\ pc = "attempt"
    /\ LoopTest(attempts, args.retries)
    /\ \E run \in Runs :
          LET kept == persist_entry(run.result, existing, run.file)
          IN  /\ run.raised = "none"
              /\ artifacts' = run.artifacts
              /\ ai_calls' = ai_calls + run.ai
              /\ git' = run.git
              /\ nops' = nops + run.writes + kept.writes
              /\ IF kept.raised # "none"
                 THEN /\ pc' = "aborted"
                      /\ data_file' = run.file
                      /\ UNCHANGED <<existing, idx, outcomes>>
                 ELSE /\ data_file' = kept.file
                      /\ existing' = kept.existing
                      /\ outcomes' = Append(outcomes, Outcome("success"))
                      /\ Advance
    /\ attempts' = attempts + 1
    /\ calls' = calls + 1
    /\ size_bytes' = 0
    /\ last_error' = NoError
    /\ ret' = Returned(TRUE, NoError, attempts + 1)
    /\ successes' = Append(successes, pdf_files[idx])
    /\ UNCHANGED <<args, scan, cur, pdf_files, op, failures, sleeps, at_start,
                   status>>

\* run_with_retries, lines 306-332: an attempt raises and another one is
\* allowed.
AttemptFailsRetry ==
    /\ pc = "attempt"
    /\ LoopTest(attempts, args.retries)
    /\ ~Exhausted(attempts + 1, args.retries)
    /\ \E run \in Runs :
          /\ run.raised # "none"
          /\ artifacts' = run.artifacts
          /\ data_file' = run.file
          /\ ai_calls' = ai_calls + run.ai
          /\ git' = run.git
          /\ nops' = nops + run.writes
          /\ last_error' = Caught(run.raised, attempts + 1)
    /\ attempts' = attempts + 1
    /\ calls' = calls + 1
    /\ size_bytes' = 0
    /\ pc' = "sleep"
    /\ UNCHANGED <<args, scan, cur, pdf_files, idx, existing, op, successes,
                   failures, ret, sleeps, at_start, outcomes, status>>

\* The loop without time.sleep(1.0).
Sleep_skipped ==
    /\ pc = "sleep"
    /\ pc' = "attempt"
    /\ UNCHANGED <<args, scan, cur, pdf_files, idx, data_file, existing, op, nops,
                   artifacts, size_bytes, successes, failures, attempts, last_error,
                   ret, calls, sleeps, ai_calls, git, at_start, outcomes, status>>

\* run_with_retries, line 332: time.sleep(1.0), then the loop test again.
Sleep ==
    /\ pc = "sleep"
    /\ sleeps' = sleeps + 1
    /\ pc' = "attempt"
    /\ UNCHANGED <<args, scan, cur, pdf_files, idx, data_file, existing, op, nops, artifacts,
                   size_bytes, successes, failures, attempts, last_error, ret, calls,
                   ai_calls, git, at_start, outcomes, status>>

\* run_with_retries, lines 306-333, and main, lines 681-682: the last
\* allowed attempt raises, the failure is returned and recorded.
AttemptFailsLast ==
    /\ pc = "attempt"
    /\ LoopTest(attempts, args.retries)
    /\ Exhausted(attempts + 1, args.retries)
    /\ \E run \in Runs :
          LET error == Caught(run.raised, attempts + 1)
          IN  /\ run.raised # "none"
              /\ artifacts' = run.artifacts
              /\ data_file' = run.file
              /\ ai_calls' = ai_calls + run.ai
              /\ git' = run.git
              /\ nops' = nops + run.writes
              /\ last_error' = error
              /\ ret' = Returned(FALSE, error, attempts + 1)
              /\ failures' = Append(failures, [file |-> pdf_files[idx], error |-> error,
                                               attempts |-> attempts + 1])
    /\ attempts' = attempts + 1
    /\ calls' = calls + 1
    /\ size_bytes' = 0
    /\ outcomes' = Append(outcomes, Outcome("failure"))
    /\ Advance
    /\ UNCHANGED <<args, scan, cur, pdf_files, existing, op, successes, sleeps,
                   at_start, status>>

\* main, lines 684-689: the summary and the exit status; with the return the
\* locals of the loop and of run_with_retries are gone.
Summary ==
    /\ pc = "summary"
    /\ status' = IF failures # <<>> THEN 1 ELSE 0
    /\ pc' = "done"
    /\ TakeUp
    /\ size_bytes' = 0
    /\ UNCHANGED <<args, scan, cur, pdf_files, idx, data_file, existing, op, nops, artifacts,
                   successes, failures, outcomes>>

NextBatch ==
    \/ MainStart
    \/ LoopHead
    \/ DecideSkip
    \/ DecideRaise
    \/ DecideOversized
    \/ DecideProcess
    \/ AttemptSucceeds
    \/ AttemptFailsRetry
    \/ Sleep
    \/ AttemptFailsLast
    \/ Summary

SpecBatch == InitBatch /\ [][NextBatch]_vars

Init == InitBatch

Next == NextBatch

Spec == Init /\ [][Next]_vars

\* The manifest under store operations in any order and under runs of main.
InitAll == InitStore \/ InitBatch

NextAll == NextStore \/ NextBatch

SpecAll == InitAll /\ [][NextAll]_vars

(***************************************************************************)
(* SpecEnum: main resolving the file set, lines 605-624, with              *)
(* load_list_file and the enumeration cascade of collect_pdf_files.  A     *)
(* path is [dir, name], both character by character; the scanned directory *)
(* is /u.                                                                  *)
(***************************************************************************)
Uploads == <<"/", "u">>

UploadPath(name) == [dir |-> Uploads, name |-> name]

\* Path(stripped), made absolute as in load_list_file, lines 584-586
ListedPath(stripped) ==
    IF stripped[1] = "/"
    THEN [dir |-> <<"/">>, name |-> Tail(stripped)]
    ELSE UploadPath(stripped)

\* load_list_file, lines 580-587: one line of the list, as a sequence of the
\* paths it contributes
ListLine(line) ==
    LET stripped == Strip(line, SpaceChars)
    IN  IF stripped = <<>> \/ stripped[1] = "#" THEN <<>> ELSE <<ListedPath(stripped)>>

RECURSIVE ListLines(_)
ListLines(lines) ==
    IF lines = <<>> THEN <<>> ELSE ListLine(Head(lines)) \o ListLines(Tail(lines))

\* batch_pdf_to_ppt.load_list_file: the entries, and the exception raised.
\* read_text(encoding="utf-8") raises OSError, which is caught, or
\* UnicodeDecodeError, which is not.
load_list_file(list) ==
    CASE list.state = "oserror"     -> [raised |-> "none", entries |-> <<>>]
      [] list.state = "undecodable" -> [raised |-> "UnicodeDecodeError", entries |-> <<>>]
      [] OTHER                      -> [raised |-> "none", entries |-> ListLines(list.lines)]

\* Python's ordering of the paths of the model: by directory, then by name
PathLess(p, q) ==
    \/ StrLess(p.dir, q.dir)
    \/ p.dir = q.dir /\ StrLess(p.name, q.name)

\* sorted(paths)
RECURSIVE sorted(_)
sorted(paths) ==
    IF paths = <<>> THEN <<>>
    ELSE LET front == sorted(SubSeq(paths, 1, Len(paths) - 1))
             x     == paths[Len(paths)]
             n     == Cardinality({i \in 1..Len(front) : ~PathLess(x, front[i])})
         IN  SubSeq(front, 1, n) \o <<x>> \o SubSeq(front, n + 1, Len(front))

\* The lines a list file of the model is made of.
ListFileLines ==
    {<<>>, <<" ">>, <<"#", "A">>, <<" ", "#">>, <<"b", "_">>, <<" ", "A", " ">>,
     <<"/", "A">>}

ListFiles ==
    {NoList, [state |-> "oserror", lines |-> <<>>],
     [state |-> "undecodable", lines |-> <<>>]}
    \cup {[state |-> "text", lines |-> l] : l \in SeqsUpTo(ListFileLines, MaxFiles)}

\* A directory of the scanned directory whose name matches the pattern: d.pdf
StemDir == <<"d">>

\* The entries of the scanned directory whose names match the pattern.
Matching == Catalogue \cup {StemDir}

\* Path.is_file() of an entry
is_file(name) == name \in Catalogue

\* The strategies that report regular files only: the listing tests
\* entry.is_file() (line 395), the for loop of cmd.exe goes over files (line
\* 499), find is given -type f (lines 469-470).  Path.glob (line 616) and the
\* glob of bash (lines 431-435) report every entry with a matching name.
FiltersFileType(strategy) == strategy \in {"iterdir", "windows", "find"}

\* What a strategy may find in the directory: matching entries, each once,
\* in the order the strategy reports them.
Findings(strategy) ==
    {[i \in 1..Len(f) |-> UploadPath(f[i])] :
        f \in {g \in SeqsUpTo(IF FiltersFileType(strategy) THEN Catalogue ELSE Matching,
                              MaxFiles) :
                  \A i, j \in 1..Len(g) : i # j => g[i] # g[j]}}

InitEnum ==
    /\ pc = "resolve"
    /\ data_file = MissingFile
    /\ existing = EmptyMap
    /\ op = NoOp
    /\ nops = 0
    /\ args = NoArgs
    /\ scan \in {[NoScan EXCEPT !.list = l] : l \in ListFiles}
    /\ pdf_files = <<>>
    /\ idx = 0
    /\ cur = NoCur
    /\ artifacts = EmptyMap
    /\ size_bytes = 0
    /\ successes = <<>>
    /\ failures = <<>>
    /\ attempts = 0
    /\ last_error = NoError
    /\ ret = NoReturn
    /\ calls = 0
    /\ sleeps = 0
    /\ ai_calls = 0
    /\ git = {}
    /\ at_start = MissingFile
    /\ outcomes = <<>>
    /\ status = -1

\* What the resolution of the file set leaves alone.
enumFrame == <<data_file, existing, op, nops, args, idx, cur, artifacts, size_bytes,
               successes, failures, attempts, last_error, ret, calls, sleeps,
               ai_calls, git, at_start, outcomes>>

\* main, lines 622-626: with no file main returns 0, otherwise it goes on
\* with the files; s is what is known of the scan by then.
Return(files, s) ==
    /\ pdf_files' = files
    /\ scan' = s
    /\ IF files = <<>>
       THEN /\ pc' = "done"
            /\ status' = 0
       ELSE /\ pc' = "resolved"
            /\ UNCHANGED status

\* One more strategy invoked, and what it produced.
Invoked(strategy, result) ==
    [scan EXCEPT !.invoked = Append(@, strategy), !.produced = Append(@, result)]

\* An emptiness test that takes a single match for none.
Found_two_or_more(result) == Len(result) > 1

\* main, line 620, and collect_pdf_files, lines 409, 413 and 417: the
\* strategy produced something
Found(result) == result # <<>>

\* The sidecar written after the shell glob as well.
WritesSidecar_shell_too(strategy) == strategy \in {"shell", "windows"}

\* collect_pdf_files, lines 416-418: only the matches of windows_glob_scan
\* are passed to write_auto_file_list
WritesSidecar(strategy) == strategy = "windows"

\* batch_pdf_to_ppt.write_auto_file_list: the sidecar afterwards; an OSError
\* of write_text is reported and ignored.
write_auto_file_list(write_ok) == IF write_ok THEN "written" ELSE "failed"

\* One strategy of the cascade, given what it produced: its sorted matches
\* are the file set, or the next strategy is up (followup), or there is none
\* left and nothing is returned.
Stage(strategy, result, write_ok, followup) ==
    IF Found(result)
    THEN Return(sorted(result),
                [Invoked(strategy, result) EXCEPT
                    !.source  = strategy,
                    !.sidecar = IF WritesSidecar(strategy)
                                THEN write_auto_file_list(write_ok) ELSE @])
    ELSE IF followup = "return"
    THEN Return(<<>>, Invoked(strategy, result))
    ELSE /\ pc' = followup
         /\ scan' = Invoked(strategy, result)
         /\ UNCHANGED <<pdf_files, status>>

\* An uncaught exception ends main.
Propagates(strategy) ==
    /\ pc' = "aborted"
    /\ scan' = Invoked(strategy, <<>>)
    /\ UNCHANGED <<pdf_files, status>>

\* main, lines 605-613: the uploads directory, and the --file-list mode.
ResolveBegin ==
    /\ pc = "resolve"
    /\ \E uploads_exists \in BOOLEAN :
          IF ~uploads_exists
          THEN /\ pc' = "done"
               /\ status' = 0
               /\ UNCHANGED <<pdf_files, scan>>
          ELSE IF scan.list.state # "none"
          THEN LET loaded == load_list_file(scan.list)
               IN  IF loaded.raised # "none"
                   THEN /\ pc' = "aborted"
                        /\ UNCHANGED <<pdf_files, scan, status>>
                   ELSE Return(loaded.entries,
                               [scan EXCEPT !.source = IF loaded.entries = <<>>
                                                       THEN "none" ELSE "list"])
          ELSE /\ pc' = "glob"
               /\ UNCHANGED <<pdf_files, scan, status>>
    /\ UNCHANGED enumFrame

\* main, lines 615-621: sorted(uploads_dir.glob(pattern)); on OSError, and
\* with no match, collect_pdf_files is called.
NativeGlob ==
    /\ pc = "glob"
    /\ \E raised \in BOOLEAN, found \in Findings("glob") :
          Stage("glob", IF raised THEN <<>> ELSE found, TRUE, "iterdir")
    /\ UNCHANGED enumFrame

\* collect_pdf_files, lines 385-410: the listing with iterdir().  An OSError
\* of the iterdir() call ends collect_pdf_files with no match; an OSError
\* while iterating leaves the matches seen so far.
NativeListing ==
    /\ pc = "iterdir"
    /\ \E call_raises \in BOOLEAN, found \in Findings("iterdir") :
          IF call_raises
          THEN Return(<<>>, Invoked("iterdir", <<>>))
          ELSE Stage("iterdir", found, TRUE, "shell")
    /\ UNCHANGED enumFrame

\* collect_pdf_files, lines 412-414, with shell_glob_scan: subprocess.run
\* raises OSError when bash cannot be started, and nothing catches it; an
\* exit status other than 0 and 1 counts as no match.
ShellGlob ==
    /\ pc = "shell"
    /\ \E launch \in {"ok", "OSError", "exit status"}, found \in Findings("shell") :
          IF launch = "OSError"
          THEN Propagates("shell")
          ELSE Stage("shell", IF launch = "ok" THEN found ELSE <<>>, TRUE, "windows")
    /\ UNCHANGED enumFrame

\* collect_pdf_files, lines 416-419, with windows_glob_scan: no wslpath, an
\* OSError starting cmd.exe and an exit status other than 0 and 1 all count
\* as no match; matches are also written to the sidecar file.
WindowsGlob ==
    /\ pc = "windows"
    /\ \E available \in BOOLEAN, found \in Findings("windows"), write_ok \in BOOLEAN :
          Stage("windows", IF available THEN found ELSE <<>>, write_ok, "find")
    /\ UNCHANGED enumFrame

\* collect_pdf_files, line 421, with fallback_find: subprocess.run raises
\* OSError when find cannot be started, and nothing catches it; otherwise
\* its sorted matches are returned, also when there are none.
FallbackFind ==
    /\ pc = "find"
    /\ \E launch \in {"ok", "OSError"}, found \in Findings("find") :
          IF launch = "OSError"
          THEN Propagates("find")
          ELSE Stage("find", found, TRUE, "return")
    /\ UNCHANGED enumFrame

NextEnum ==
    \/ ResolveBegin
    \/ NativeGlob
    \/ NativeListing
    \/ ShellGlob
    \/ WindowsGlob
    \/ FallbackFind

SpecEnum == InitEnum /\ [][NextEnum]_vars

(***************************************************************************)
(* SpecText: the pure text functions parse_title_author and slugify,       *)
(* applied to texts drawn from bounded sets.                               *)
(***************************************************************************)
MaxPieces == 5

MaxSlugLen == 3

\* The pieces a file stem of the model is made of: the delimiter, a text
\* that normalizes to nothing, texts that normalize to something, and a near
\* miss of the delimiter.
StemPieces == {DELIMITER, <<"_">>, <<"a">>, <<"B", "_", "c">>, <<"-", "-">>}

RECURSIVE Concat(_)
Concat(pieces) ==
    IF pieces = <<>> THEN <<>> ELSE Head(pieces) \o Concat(Tail(pieces))

\* With five pieces the stems have no, one and two delimiters with texts
\* before, between and after them, and delimiters next to each other.
Stems == {Concat(p) : p \in SeqsUpTo(StemPieces, MaxPieces)}

\* The characters the arguments of slugify are made of: a capital, a small
\* letter, a digit, the hyphen, the underscore, the space and a punctuation
\* mark.
SlugChars == {"A", "b", "7", "-", "_", " ", "!"}

\* "Hello, World!"
HelloWorld == <<"H", "e", "l", "l", "o", ",", " ", "W", "o", "r", "l", "d", "!">>

SlugInputs == SeqsUpTo(SlugChars, MaxSlugLen) \cup {Book, HelloWorld}

InitText ==
    /\ pc = "text"
    /\ data_file = MissingFile
    /\ existing = EmptyMap
    /\ op = NoOp
    /\ nops = 0
    /\ BatchIdle

\* parse_title_author(stem)
ParseStem ==
    /\ pc = "text"
    /\ \E stem \in Stems :
          op' = [name |-> "parse_title_author", arg |-> stem,
                 result |-> parse_title_author(stem)]
    /\ pc' = "applied"
    /\ nops' = 1
    /\ UNCHANGED <<data_file, existing, batchVars>>

\* slugify(value)
SlugifyText ==
    /\ pc = "text"
    /\ \E value \in SlugInputs :
          op' = [name |-> "slugify", arg |-> value, result |-> slugify(value),
                 of_result |-> FALSE]
    /\ pc' = "applied"
    /\ nops' = 1
    /\ UNCHANGED <<data_file, existing, batchVars>>

\* slugify applied to what slugify returned
SlugifyResult ==
    /\ pc = "applied"
    /\ op.name = "slugify"
    /\ ~op.of_result
    /\ op' = [name |-> "slugify", arg |-> op.result, result |-> slugify(op.result),
              of_result |-> TRUE]
    /\ nops' = 2
    /\ UNCHANGED <<pc, data_file, existing, batchVars>>

NextText ==
    \/ ParseStem
    \/ SlugifyText
    \/ SlugifyResult

SpecText == InitText /\ [][NextText]_vars

(***************************************************************************)
(* SpecProgress: the progress messages of one attempt, one call of         *)
(* run_pipeline by run_with_retries with its progress_callback.  op holds  *)
(* run_pipeline's progress_messages, call_gemini's messages and counters,  *)
(* and progress_lines, what the callback has received and printed.         *)
(***************************************************************************)
MaxChunks == 3

\* The chunks of the stream: the length of the text and the number of
\* class="slide it holds; a chunk without text is passed over.
Chunks == [chars : {0, 700, 1500}, slide_hits : {0, 1}]

NoAttempt ==
    [name |-> "run_pipeline", dry_run |-> FALSE, progress_messages |-> <<>>,
     messages |-> <<>>, progress_lines |-> <<>>, chars |-> 0, slides |-> 0,
     last |-> 0, chunks |-> 0]

InitProgress ==
    /\ pc = "pipeline"
    /\ data_file = MissingFile
    /\ existing = EmptyMap
    /\ op = NoAttempt
    /\ nops = 0
    /\ BatchIdle

\* run_pipeline.aggregator with the progress_callback of run_with_retries
\* (process_pdf.py 657-662, batch_pdf_to_ppt.py 311-313): the message is
\* appended to progress_messages and handed to the callback, which appends
\* it to progress_lines and prints it.
aggregator(o, message) ==
    [o EXCEPT !.progress_messages = Append(@, message),
              !.progress_lines    = Append(@, message)]

\* call_gemini.emit (lines 501-506) with on_progress = aggregator
emit(o, message) ==
    aggregator([o EXCEPT !.messages = Append(@, message)], message)

\* run_pipeline, lines 648-664: the dry run records its message in
\* progress_messages; otherwise the start message goes to the aggregator.
PipelineBegin ==
    /\ pc = "pipeline"
    /\ \E dry_run \in BOOLEAN :
          IF dry_run
          THEN /\ op' = [op EXCEPT !.dry_run = TRUE,
                                   !.progress_messages = Append(@, <<"dry-run">>)]
               /\ pc' = "write"
          ELSE /\ op' = aggregator(op, <<"start">>)
               /\ pc' = "stream"
    /\ UNCHANGED <<data_file, existing, nops, batchVars>>

\* call_gemini, lines 508-543: one chunk of the stream.
StreamChunk ==
    /\ pc = "stream"
    /\ op.chunks < MaxChunks
    /\ \E chunk \in Chunks :
          LET counted == [op EXCEPT !.chunks = @ + 1,
                                    !.chars = @ + chunk.chars,
                                    !.slides = @ + (IF chunk.chars > 0
                                                    THEN chunk.slide_hits ELSE 0)]
          IN  op' = IF chunk.chars = 0
                    THEN [op EXCEPT !.chunks = @ + 1]
                    ELSE IF chunk.slide_hits > 0
                    THEN emit(counted, <<"slides", counted.slides>>)
                    ELSE IF counted.chars - counted.last >= 1500
                    THEN emit([counted EXCEPT !.last = counted.chars],
                              <<"chars", counted.chars>>)
                    ELSE counted
    /\ UNCHANGED <<pc, data_file, existing, nops, batchVars>>

\* call_gemini, lines 522-526: the stream raises.
StreamRaises ==
    /\ pc = "stream"
    /\ pc' = "raised"
    /\ UNCHANGED <<op, data_file, existing, nops, batchVars>>

\* call_gemini, lines 544-550, and run_pipeline, lines 671-673: the last
\* message; the messages call_gemini returns are added to progress_messages
\* unless they are in it.
StreamEnds ==
    /\ pc = "stream"
    /\ LET ended == emit(op, <<"done">>)
           new   == SelectSeq(ended.messages,
                              LAMBDA m : ~\E i \in 1..Len(ended.progress_messages) :
                                             ended.progress_messages[i] = m)
       IN  op' = [ended EXCEPT !.progress_messages = @ \o new]
    /\ pc' = "write"
    /\ UNCHANGED <<data_file, existing, nops, batchVars>>

\* run_pipeline, lines 675-704: the artifacts are written and the result is
\* returned with "progress": progress_messages, or one of the writes raises.
PipelineEnds ==
    /\ pc = "write"
    /\ pc' \in {"returned", "raised"}
    /\ UNCHANGED <<op, data_file, existing, nops, batchVars>>

NextProgress ==
    \/ PipelineBegin
    \/ StreamChunk
    \/ StreamRaises
    \/ StreamEnds
    \/ PipelineEnds

SpecProgress == InitProgress /\ [][NextProgress]_vars

(***************************************************************************)
(* SpecResume: a run that is terminated inside run_pipeline for a file,    *)
(* after the cover or the presentation was written and before              *)
(* update_manifest, and the skip decision of the next run for that file.   *)
(***************************************************************************)
\* The manifests the first run starts with: well-formed ones.
ResumeManifests ==
    {MissingFile, ArrayFile(<<EA1>>), ArrayFile(<<ELegacy>>),
     ArrayFile(<<EA1, ELegacy>>), ArrayFile(<<EB1>>)}

InitResume ==
    /\ pc = "first run"
    /\ data_file \in ResumeManifests
    /\ existing = load_existing_slugs(data_file).map
    /\ op = NoOp
    /\ nops = 0
    /\ BatchIdle

\* The first run: main takes up a file (lines 632-643, should_skip is false
\* for it or --force is given), run_pipeline writes the cover (line 642 of
\* process_pdf.py), possibly the presentation (line 677), and the process
\* is terminated before update_manifest (line 689).
Terminated ==
    /\ pc = "first run"
    /\ \E stem \in Catalogue, force \in BOOLEAN, found \in ArtifactStates,
          cover_written \in BOOLEAN, presentation \in {"none", "marked", "unmarked"} :
          LET chosen == Chosen(stem, existing)
          IN  /\ should_skip(chosen.slug, existing, force, found) = "false"
              /\ cover_written \/ presentation # "none"
              /\ cur' = chosen
              /\ pdf_files' = <<stem>>
              /\ idx' = 1
              /\ artifacts' = (PresentationRel(chosen.slug) :>
                                  IF presentation = "none" THEN found ELSE presentation)
              /\ op' = [name |-> "terminated", force |-> force,
                        cover_written |-> cover_written, presentation |-> presentation]
    /\ pc' = "next run"
    /\ UNCHANGED <<data_file, existing, nops, args, scan, size_bytes, successes,
                   failures, attempts, last_error, ret, calls, sleeps, ai_calls, git,
                   at_start, outcomes, status>>

\* The next run, without --force: main loads the manifest (line 626),
\* chooses the slug of the file (lines 633-639) and calls should_skip (641).
NextRunDecides ==
    /\ pc = "next run"
    /\ LET known  == load_existing_slugs(data_file).map
           chosen == Chosen(pdf_files[idx], known)
           path   == IF chosen.slug \in DOMAIN known
                     THEN known[chosen.slug].presentation ELSE None
       IN  /\ existing' = known
           /\ cur' = chosen
           /\ \E found \in (IF path \in DOMAIN artifacts
                             THEN {artifacts[path]} ELSE {"missing"}) :
                 op' = [name |-> "next run", slug |-> chosen.slug, artifact |-> found,
                        terminated |-> op,
                        result |-> should_skip(chosen.slug, known, FALSE, found)]
    /\ pc' = "decided"
    /\ UNCHANGED <<data_file, nops, args, scan, pdf_files, idx, artifacts, size_bytes,
                   successes, failures, attempts, last_error, ret, calls, sleeps,
                   ai_calls, git, at_start, outcomes, status>>

NextResume ==
    \/ Terminated
    \/ NextRunDecides

SpecResume == InitResume /\ [][NextResume]_vars

(***************************************************************************)
(* SpecRerun: a run that handles a file over the limit with                *)
(* handle_large_pdf, and the skip decision of the following run for it.    *)
(***************************************************************************)
\* The first run: main takes up a file over the limit (lines 641-654) and
\* handle_large_pdf writes the placeholder and the manifest entry
\* (lines 259-289); the run ends.
HandledOversized ==
    /\ pc = "first run"
    /\ \E stem \in Catalogue, force \in BOOLEAN, found \in ArtifactStates,
          st_size \in FileSizes, today \in TodayDates, cover_ok \in BOOLEAN :
          LET chosen == Chosen(stem, existing)
              slug   == chosen.slug
              entry  == Entry(slug, chosen.title, chosen.author, today, <<>>, "",
                              PresentationRel(slug), cover_rel(slug, cover_ok))
              upd    == update_manifest(data_file, entry)
          IN  /\ should_skip(slug, existing, force, found) = "false"
              /\ IsOversized(st_size)
              /\ upd.raised = "none"
              /\ cur' = chosen
              /\ pdf_files' = <<stem>>
              /\ idx' = 1
              /\ size_bytes' = st_size
              /\ artifacts' = (PresentationRel(slug) :> "unmarked")
              /\ data_file' = upd.file
              /\ existing' = (slug :> entry) @@ existing
              /\ op' = [name |-> "handle_large_pdf", force |-> force,
                        found |-> found, entry |-> entry]
    /\ pc' = "next run"
    /\ UNCHANGED <<nops, args, scan, successes, failures, attempts, last_error, ret,
                   calls, sleeps, ai_calls, git, at_start, outcomes, status>>

NextRerun ==
    \/ HandledOversized
    \/ NextRunDecides

SpecRerun == InitResume /\ [][NextRerun]_vars

(***************************************************************************)
(* Properties.                                                             *)
(***************************************************************************)
Last(seq) == seq[Len(seq)]

\* The positions of the manifest array that hold an entry with the slug.
WithSlug(file, slug) ==
    {i \in 1..Len(file.records) :
        IsObject(file.records[i]) /\ file.records[i].slug = slug}

\* No two entries of the manifest array share a slug.
Unique(file) ==
    \A i, j \in 1..Len(file.records) :
        (/\ i # j
         /\ IsObject(file.records[i]) /\ IsObject(file.records[j])
         /\ file.records[i].slug # None)
        => file.records[i].slug # file.records[j].slug

\* The manifest array holds the entry, and no other entry with its slug.
HoldsOnly(file, entry) ==
    /\ Cardinality(WithSlug(file, entry.slug)) = 1
    /\ \A i \in WithSlug(file, entry.slug) : file.records[i] = entry

\* C1: for every retries >= 0, run_with_retries calls run_pipeline at least
\* once and at most retries + 1 times, makes no call after a call that
\* succeeded, and returns as attempt count the number of calls it made.
C1_InvocationBounds ==
    /\ calls <= args.retries + 1
    /\ pc \in {"attempt", "sleep"} => (calls <= args.retries /\ ~ret.ok)
    /\ ret.attempts > 0 =>
          /\ pc \notin {"attempt", "sleep"}
          /\ calls >= 1
          /\ ret.attempts = calls

\* fail, fail, succeed with retries = 2: success with count 3
C1_Witness ==
    /\ args.retries = 2
    /\ ret.ok
    /\ ret.attempts = 3
    /\ calls = 3

\* C2: every failed attempt of run_with_retries that is not the last one
\* allowed is followed by exactly one sleep before the next attempt, no sleep
\* follows the last failed attempt or a successful one, and the error
\* returned when the attempts are used up is the one the last attempt raised.
C2_Backoff ==
    /\ pc = "attempt" => sleeps = calls
    /\ pc = "sleep" => sleeps + 1 = calls
    /\ ret.attempts > 0 => sleeps + 1 = calls
    /\ (ret.attempts > 0 /\ ~ret.ok) =>
          /\ ret.error.kind # "none"
          /\ ret.error.at = ret.attempts
          /\ ret.error = last_error

\* three failed attempts with retries = 2: two sleeps, the third error returned
C2_Witness ==
    /\ args.retries = 2
    /\ ~ret.ok
    /\ ret.attempts = 3
    /\ sleeps = 2
    /\ ret.error.at = 3

\* C3: once every attempt for a file has failed, the manifest on storage is
\* what it was before the file's first attempt.
C3_FailureLeavesManifest ==
    (pc \in {"head", "summary"} /\ ret.attempts > 0 /\ ~ret.ok) =>
        data_file = at_start

\* C4: should_skip returns True exactly when force is false, the map has an
\* entry for the slug, the entry names a presentation path, the file exists
\* and it holds the navigation marker; in every other case it returns False.
C4_SkipIff ==
    op.name = "should_skip" =>
        LET ready == /\ ~op.force
                     /\ op.slug \in DOMAIN existing
                     /\ existing[op.slug].presentation \notin {None, <<>>}
                     /\ op.artifact # "missing"
                     /\ op.artifact = "marked"
        IN  op.result = IF ready THEN "true" ELSE "false"

\* C5: a file that is not skipped and is larger than 80 MiB is never passed
\* to run_with_retries, run_pipeline or call_gemini, is recorded as a
\* success, and leaves an entry for its slug with tags [] and description ""
\* in the manifest.
C5_OversizedPlaceholder ==
    size_bytes > MAX_PDF_SIZE =>
        /\ calls = 0 /\ ai_calls = 0 /\ sleeps = 0 /\ attempts = 0
        /\ pc \in {"head", "summary", "done"}
        /\ outcomes # <<>> /\ Last(outcomes).branch = "oversized"
        /\ successes # <<>> /\ Last(successes) = Last(outcomes).file
        /\ \E i \in WithSlug(data_file, Last(outcomes).slug) :
              /\ data_file.records[i].tags = <<>>
              /\ data_file.records[i].description = ""

\* C6: update_manifest is idempotent: applied a second time with the same
\* entry it leaves the manifest array as the first application left it, with
\* exactly one entry of that slug.
C6_UpsertIdempotent ==
    (op.name = "update_manifest" /\ op.raised = "none") =>
        /\ Cardinality(WithSlug(data_file, op.entry.slug)) = 1
        /\ update_manifest(data_file, op.entry) =
              [raised |-> "none", file |-> data_file]

\* the entry applied to a manifest that already was the result of applying it
C6_Witness ==
    /\ op.name = "update_manifest"
    /\ op.raised = "none"
    /\ nops = 2
    /\ op.file_before = data_file
    /\ Len(data_file.records) >= 2

\* C7: no operation of the store or of the batch makes two entries share a
\* slug in a manifest where none did, and after an upsert of e the one entry
\* with e's slug is e.
C7_SlugUnique ==
    [][/\ Unique(data_file) => Unique(data_file')
       /\ (/\ pc = "store"
           /\ op'.name \in {"update_manifest", "persist_entry"}
           /\ op'.raised = "none"
           /\ op'.entry.slug \notin {None, <<>>})
          => HoldsOnly(data_file', op'.entry)
       /\ (pc \in {"decide", "attempt"} /\ existing' # existing)
          => HoldsOnly(data_file', existing'[cur.slug])]_vars

\* an upsert replaced the entry the manifest had for the slug by another one
C7_Witness ==
    /\ op.name = "update_manifest"
    /\ op.raised = "none"
    /\ Unique(op.file_before)
    /\ Cardinality(WithSlug(op.file_before, op.entry.slug)) = 1
    /\ ~HoldsOnly(op.file_before, op.entry)
    /\ Len(data_file.records) = 2

\* The date the ordering uses: the parsed date, the minimum date when the
\* entry's date does not parse.
OrderingDate(e) == IF fromisoformat(e.date) = 0 THEN DateMin ELSE fromisoformat(e.date)

\* a is not below b in the order by (date, title)
NotBelow(a, b) ==
    \/ OrderingDate(a) > OrderingDate(b)
    \/ OrderingDate(a) = OrderingDate(b) /\ ~StrLess(a.title, b.title)

Descending(records) ==
    \A i, j \in 1..Len(records) : i < j => NotBelow(records[i], records[j])

\* C8: after every upsert the whole manifest array is in descending order of
\* (parsed date, title), a date that does not parse counting as the minimum
\* date, whatever the order before.
C8_SortedAfterUpsert ==
    (/\ op.name \in {"update_manifest", "persist_entry"}
     /\ op.raised = "none"
     /\ op.entry.slug \notin {None, <<>>})
    => Descending(data_file.records)

\* an upsert into an array that was out of order and holds an unparsable date
C8_Witness ==
    /\ op.name = "update_manifest"
    /\ op.raised = "none"
    /\ ~Descending(op.file_before.records)
    /\ Len(data_file.records) = 3
    /\ \E i \in 1..3 : fromisoformat(data_file.records[i].date) = 0

\* C9: load_existing_slugs never raises, whatever the manifest file holds,
\* and returns the empty mapping when the file is missing, is not JSON or is
\* not an array.
C9_LoadNeverRaises ==
    op.name = "load" =>
        /\ op.raised = "none"
        /\ data_file.kind # "array" => op.result = EmptyMap

TitleOf(stem) == parse_title_author(stem).title

AuthorOf(stem) == parse_title_author(stem).author

PrimaryOf(stem) == slugify(TitleOf(stem))

LegacyOf(stem) == slugify(TitleOf(stem) \o <<" ">> \o AuthorOf(stem))

\* An author was parsed, the map knows the legacy slug and not the primary one.
OnlyLegacyKnown(stem, known) ==
    /\ AuthorOf(stem) # None
    /\ LegacyOf(stem) \in DOMAIN known
    /\ PrimaryOf(stem) \notin DOMAIN known

\* The entries of the manifest array with the slug.
EntriesOf(file, slug) == {file.records[i] : i \in WithSlug(file, slug)}

\* C11: main processes a file under the legacy slug exactly when an author was
\* parsed, the slug map holds the legacy slug and does not hold the primary
\* slug, and under the primary slug in every other case; no step main takes
\* for a file it processes under the legacy slug adds or changes a manifest
\* entry with the primary slug of that file.
C11_LegacySlugRule ==
    /\ [](pc = "decide" =>
            cur.slug = IF OnlyLegacyKnown(pdf_files[idx], existing)
                       THEN LegacyOf(pdf_files[idx])
                       ELSE PrimaryOf(pdf_files[idx]))
    /\ [][(/\ pc \in {"decide", "attempt", "sleep"}
           /\ AuthorOf(pdf_files[idx]) # None
           /\ cur.slug = LegacyOf(pdf_files[idx])
           /\ cur.slug # PrimaryOf(pdf_files[idx]))
          => EntriesOf(data_file', PrimaryOf(pdf_files[idx]))
                = EntriesOf(data_file, PrimaryOf(pdf_files[idx]))]_vars

\* "a -- b.pdf" with the manifest holding a-b and not a: processed as a-b
C11_Witness ==
    /\ pc \in {"head", "summary"}
    /\ outcomes # <<>>
    /\ Last(outcomes).file = StemAB
    /\ Last(outcomes).branch = "success"
    /\ Last(outcomes).slug = <<"a", "-", "b">>
    /\ Cardinality(WithSlug(data_file, <<"a", "-", "b">>)) = 1

\* The file at position i of the file set has been skipped, handled as
\* oversized or attempted.
Examined(i) ==
    \/ i < idx
    \/ i = idx /\ (calls > 0 \/ size_bytes > MAX_PDF_SIZE)

\* C12: a file whose attempts are used up is in the failure list with the
\* error of its last attempt and the number of attempts made, and once main
\* has ended, every file of the file set, the ones after it included, has
\* been skipped, handled as oversized or attempted.
C12_FailureDoesNotStopBatch ==
    failures # <<>> =>
        /\ \A i \in 1..Len(failures) :
              /\ failures[i].attempts = args.retries + 1
              /\ failures[i].error.kind # "none"
              /\ failures[i].error.at = failures[i].attempts
        /\ pc \in {"aborted", "done"} =>
              \A i \in 1..Len(pdf_files) : Examined(i)

\* C13: whatever the per-file steps do (the skip decision, the size check,
\* the handling of an oversized file, the retry loop, persist_entry), main
\* does not end inside its loop over the files: it goes on to the summary.
C13_NoBatchFatalError ==
    idx >= 1 => pc # "aborted"

\* Lines 691-692, sys.exit(main()): the exit status is the value main
\* returns, and 1 when main ends with an uncaught exception.
ExitStatus == IF pc = "aborted" THEN 1 ELSE status

\* C14: when the run has ended, its exit status is 1 exactly when at least
\* one file used up its attempts in this run, and 0 otherwise, also with no
\* file to process and with no uploads directory.
C14_StatusIffFailure ==
    pc \in {"done", "aborted"} =>
        /\ ExitStatus \in {0, 1}
        /\ ExitStatus = 1 <=> failures # <<>>

\* The files of the run that ended in the given ways.
EndedIn(branches) == {i \in 1..Len(outcomes) : outcomes[i].branch \in branches}

\* A run of main over at least one file that started with no manifest entry
\* and reached its summary.
RunFromEmptyManifest ==
    /\ pc = "done"
    /\ op.name = "main"
    /\ ReadRecords(op.file_before) = <<>>
    /\ pdf_files # <<>>
    /\ Len(outcomes) = Len(pdf_files)

\* C15: after a run that started from an empty manifest and in which every
\* file ended as a success of the pipeline or as an oversized placeholder,
\* the manifest holds exactly one entry for each slug chosen for a file and
\* nothing else, and the status is 0; after such a run in which one file
\* used up its attempts and the others ended as successes, the status is 1
\* and the failure list has exactly one element.
C15_EndToEnd ==
    RunFromEmptyManifest =>
        /\ EndedIn({"success", "oversized"}) = 1..Len(outcomes) =>
              /\ status = 0
              /\ \A i \in 1..Len(outcomes) :
                    Cardinality(WithSlug(data_file, outcomes[i].slug)) = 1
              /\ Len(data_file.records)
                    = Cardinality({outcomes[i].slug : i \in 1..Len(outcomes)})
        /\ (/\ Cardinality(EndedIn({"failure"})) = 1
            /\ EndedIn({"failure", "success", "oversized"}) = 1..Len(outcomes)) =>
              /\ status = 1
              /\ Len(failures) = 1

\* one file within the limit and one oversized file: two entries, status 0
C15_Witness ==
    /\ RunFromEmptyManifest
    /\ Len(outcomes) = 2
    /\ outcomes[1].branch = "success"
    /\ outcomes[2].branch = "oversized"
    /\ Len(data_file.records) = 2
    /\ status = 0

\* C16: in a run with --push and without --commit no git command is executed
\* for any file: no git add, no git commit, no git push.
C16_PushWithoutCommit ==
    (args.push /\ ~args.commit) => git = {}

\* The strategies in the order of the cascade: the glob and the directory
\* listing of pathlib, the shell glob, the directory tool of the operating
\* system, find.
Cascade == <<"glob", "iterdir", "shell", "windows", "find">>

\* C17: the strategies are invoked in the order of the cascade, each only
\* after all the ones before it produced nothing, none after one that
\* produced something; the file set main goes on with is the sorted result
\* of the first strategy that produced something.
C17_OrderedCascade ==
    /\ Len(scan.invoked) <= Len(Cascade)
    /\ \A k \in 1..Len(scan.invoked) :
          /\ scan.invoked[k] = Cascade[k]
          /\ k < Len(scan.invoked) => scan.produced[k] = <<>>
    /\ (pc = "resolved" /\ scan.invoked # <<>>) =>
          /\ Last(scan.produced) # <<>>
          /\ Len(pdf_files) = Len(Last(scan.produced))
          /\ {pdf_files[i] : i \in 1..Len(pdf_files)}
                = {Last(scan.produced)[i] : i \in 1..Len(Last(scan.produced))}
          /\ \A i, j \in 1..Len(pdf_files) :
                i < j => ~PathLess(pdf_files[j], pdf_files[i])

\* the first three strategies find nothing, the directory tool finds
\* b_.pdf and A.pdf: the file set is A.pdf, b_.pdf and find is not invoked
C17_Witness ==
    /\ pc = "resolved"
    /\ scan.invoked = <<"glob", "iterdir", "shell", "windows">>
    /\ scan.produced[4] = <<UploadPath(StemB), UploadPath(StemA)>>
    /\ pdf_files = <<UploadPath(StemA), UploadPath(StemB)>>

\* C18: an OS-level error of a strategy never leaves the enumeration: once
\* a strategy has been invoked, main does not end with an uncaught exception.
C18_ErrorsContained ==
    scan.invoked # <<>> => pc # "aborted"

\* The resolution of the file set has ended.
EnumEnded == pc \in {"resolved", "done", "aborted"}

\* C19 as stated: the sidecar file is written in a run exactly when the
\* directory tool of the operating system supplies the file set.
C19_SidecarIff ==
    EnumEnded => (scan.sidecar = "written" <=> scan.source = "windows")

\* C19: the write of the sidecar file is attempted in a run exactly when the
\* directory tool of the operating system supplies the file set, and not
\* when another strategy supplies it, when no strategy finds anything or in
\* the explicit list mode; the file is then written unless the write raises
\* an OS error, which is reported and ignored.
C19_SidecarOnlyFromDirectoryTool ==
    /\ scan.sidecar \in {"absent", "written", "failed"}
    /\ scan.sidecar # "absent" => (EnumEnded /\ scan.source = "windows")
    /\ (EnumEnded /\ scan.source = "windows") => scan.sidecar # "absent"
    /\ scan.list.state # "none" => scan.sidecar = "absent"

\* the directory tool supplies A.pdf and the sidecar file is written
C19_Witness ==
    /\ pc = "resolved"
    /\ scan.source = "windows"
    /\ scan.sidecar = "written"
    /\ pdf_files = <<UploadPath(StemA)>>

\* The lines of a list file that are neither blank nor comments, without
\* the white space around them.
Listed(lines) ==
    LET kept == {i \in 1..Len(lines) :
                    /\ \E j \in 1..Len(lines[i]) : ~IsSpace(lines[i][j])
                    /\ Strip(lines[i], SpaceChars)[1] # "#"}
        nth(k) == CHOOSE i \in kept : Cardinality({j \in kept : j < i}) = k - 1
    IN  [k \in 1..Cardinality(kept) |-> Strip(lines[nth(k)], SpaceChars)]

\* C20: with a list file given no strategy is invoked, whatever the list file
\* is like; a list file that cannot be read or names no path ends the run
\* with status 0; otherwise the file set is the lines of the list that are
\* neither blank nor comments, in their order, the relative ones inside the
\* scanned directory.
C20_ListBypassesCascade ==
    scan.list.state # "none" =>
        /\ scan.invoked = <<>>
        /\ pc # "aborted"
        /\ (pc = "done" /\ status = 0 /\ scan.list.state = "text")
              => (pdf_files = <<>> /\ (Listed(scan.list.lines) = <<>> \/ scan.source = "none"))
        /\ pc = "resolved" =>
              /\ scan.list.state = "text"
              /\ Len(pdf_files) = Len(Listed(scan.list.lines))
              /\ \A k \in 1..Len(pdf_files) :
                    LET line == Listed(scan.list.lines)[k]
                    IN  pdf_files[k] = IF line[1] = "/"
                                       THEN [dir |-> <<"/">>, name |-> Tail(line)]
                                       ELSE [dir |-> Uploads, name |-> line]

\* C21: a MissingDependencyError of run_pipeline is not retried: no sleep and
\* no further attempt follows it, and the file is recorded as a failure with
\* attempt count 1, whatever --retries is.
C21_ConfigFatalNotRetried ==
    /\ pc = "sleep" => last_error.kind # "MissingDependencyError"
    /\ \A i \in 1..Len(failures) :
          failures[i].error.kind = "MissingDependencyError" => failures[i].attempts = 1

\* The positions of a stem where the delimiter " -- " starts.
Occurrences(stem) ==
    {i \in 1..(Len(stem) - 3) :
        stem[i] = " " /\ stem[i + 1] = "-" /\ stem[i + 2] = "-" /\ stem[i + 3] = " "}

Least(S) == CHOOSE i \in S : \A j \in S : i <= j

\* Where the second delimiter starts: the first occurrence behind the first
\* delimiter, 0 when there is none.
SecondDelimiter(stem) ==
    LET behind == {i \in Occurrences(stem) : i >= Least(Occurrences(stem)) + 4}
    IN  IF behind = {} THEN 0 ELSE Least(behind)

OrUntitled(text) == IF text = <<>> THEN Untitled ELSE text

OrAbsent(text) == IF text = <<>> THEN None ELSE text

\* C22: parse_title_author of a stem without the delimiter is the normalized
\* stem ("Untitled" if that is empty) and no author; of a stem with the
\* delimiter it is the normalized text before the first delimiter ("Untitled"
\* if empty) and the normalized text between the first delimiter and the
\* second one, or the end of the stem; what follows the second delimiter
\* does not change the result, and an author that normalizes to nothing is
\* absent, never the empty string.
C22_ParseTitleAuthor ==
    op.name = "parse_title_author" =>
        LET stem   == op.arg
            first  == Least(Occurrences(stem))
            second == SecondDelimiter(stem)
            upto   == IF second = 0 THEN Len(stem) ELSE second - 1
        IN  /\ op.result.author # <<>>
            /\ Occurrences(stem) = {} =>
                  op.result = [title  |-> OrUntitled(normalize_segment(stem)),
                               author |-> None]
            /\ Occurrences(stem) # {} =>
                  /\ op.result.title
                        = OrUntitled(normalize_segment(SubSeq(stem, 1, first - 1)))
                  /\ op.result.author
                        = OrAbsent(normalize_segment(SubSeq(stem, first + 4, upto)))
                  /\ second # 0 =>
                        parse_title_author(SubSeq(stem, 1, upto)) = op.result

\* "a -- B_c -- a": the title is a, the author is B c
C22_Witness ==
    /\ op.name = "parse_title_author"
    /\ op.arg = <<"a">> \o DELIMITER \o <<"B", "_", "c">> \o DELIMITER \o <<"a">>
    /\ op.result = [title |-> <<"a">>, author |-> <<"B", " ", "c">>]

\* C23: slugify applied to a result of slugify returns it unchanged.
C23_SlugifyIdempotent ==
    (op.name = "slugify" /\ op.of_result) => op.result = op.arg

\* slugify("!") is "book", and slugify("book") is "book"
C23_Witness ==
    /\ op.name = "slugify"
    /\ op.of_result
    /\ op.arg = Book
    /\ op.result = Book

\* C24: no step of a run of main deletes a manifest entry: every slug the
\* manifest array has an entry for before the step, it has an entry for
\* after it.
C24_NoEntryDeleted ==
    [][\A i \in 1..Len(data_file.records) :
          IsObject(data_file.records[i])
             => WithSlug(data_file', data_file.records[i].slug) # {}]_vars

\* a manifest with the entries a and a-b, A.pdf processed: the entry a is
\* replaced by the new one, the entry a-b is still there
C24_Witness ==
    /\ pc \in {"head", "summary"}
    /\ op.name = "main"
    /\ op.file_before = ArrayFile(<<EA1, ELegacy>>)
    /\ outcomes # <<>>
    /\ Last(outcomes).branch = "success"
    /\ Last(outcomes).slug = <<"a">>
    /\ Cardinality(WithSlug(data_file, <<"a">>)) = 1
    /\ \A i \in WithSlug(data_file, <<"a">>) : data_file.records[i] # EA1
    /\ \E i \in 1..Len(data_file.records) : data_file.records[i] = ELegacy

\* C25: at every moment of an attempt, and when it has returned or raised,
\* the callback has received every progress message run_pipeline has
\* recorded so far, in the order they were recorded.
C25_ProgressInRealTime ==
    op.name = "run_pipeline" => op.progress_lines = op.progress_messages

\* C26: when main is done with a file, the manifest has been rewritten
\* exactly once for it if it was processed successfully, by the pipeline or
\* as an oversized file, and not at all if it was skipped or failed.
C26_OneWritePerSuccess ==
    (pc \in {"head", "summary"} /\ outcomes # <<>>) =>
        nops = IF Last(outcomes).branch \in {"success", "oversized"} THEN 1 ELSE 0

\* C27: in every input mode the file set main iterates over is in ascending
\* path order.
C27_SortedInEveryMode ==
    pc = "resolved" =>
        \A i, j \in 1..Len(pdf_files) :
            i < j => ~PathLess(pdf_files[j], pdf_files[i])

\* C28: the file set a strategy supplies has no path twice and holds regular
\* files only.
C28_RegularFilesOnly ==
    (pc = "resolved" /\ scan.invoked # <<>>) =>
        /\ \A i, j \in 1..Len(pdf_files) : i # j => pdf_files[i] # pdf_files[j]
        /\ \A i \in 1..Len(pdf_files) : is_file(pdf_files[i].name)

\* C29: for a file a terminated run left partially processed, the cover or
\* the presentation written and the manifest not yet updated, should_skip of
\* the next run without --force returns False.
C29_PartialIsProcessedAgain ==
    op.name = "next run" => op.result = "false"

\* C30: when main decides about a file, the oversized branch is taken exactly
\* when the size taken is strictly greater than 80*1024*1024 bytes; a file
\* of exactly 80 MiB, and a file whose stat() fails (size 0), go to
\* run_with_retries; and a file that is skipped has no size taken and no
\* handler run for it.
C30_OversizedIffOverLimit ==
    [][pc = "decide" =>
         LET limit    == 80 * 1024 * 1024
             recorded == Len(outcomes') = Len(outcomes) + 1
             skipped  == recorded /\ Last(outcomes').branch = "skipped"
             raised   == pc' = "aborted" /\ size_bytes' = 0
         IN  /\ pc' = "attempt" <=> (~skipped /\ ~raised /\ size_bytes' <= limit)
             /\ pc' = "attempt" => outcomes' = outcomes /\ artifacts' = artifacts
                                     /\ data_file' = data_file
             /\ size_bytes' > limit <=>
                   \/ recorded /\ Last(outcomes').branch = "oversized"
                   \/ pc' = "aborted" /\ ~raised
             /\ skipped => /\ size_bytes' = 0
                           /\ artifacts' = artifacts
                           /\ data_file' = data_file
                           /\ nops' = 0 /\ calls' = 0
      ]_vars

C30_Witness ==
    /\ pc = "attempt"
    /\ calls = 0
    /\ size_bytes = 80 * 1024 * 1024

\* C31: in handle_large_pdf a failure of extract_cover is not fatal: the
\* handler goes on to write the placeholder presentation and the manifest
\* entry, the entry's cover is the default cover, and the file is appended
\* to the successes; when extract_cover succeeds the entry's cover is the
\* extracted cover of the slug.
C31_CoverFailureNotFatal ==
    [][(pc = "decide" /\ IsOversized(size_bytes') /\ pc' # "aborted") =>
         LET slug  == cur.slug
             cover == IF op'.extracted THEN <<"assets/covers/">> \o slug \o <<".jpg">>
                      ELSE <<"assets/covers/default.svg">>
         IN  /\ outcomes' = Append(outcomes, Outcome("oversized"))
             /\ successes' = Append(successes, pdf_files[idx])
             /\ failures' = failures
             /\ PresentationRel(slug) \in DOMAIN artifacts'
             /\ artifacts'[PresentationRel(slug)] # "missing"
             /\ Cardinality(WithSlug(data_file', slug)) = 1
             /\ \A i \in WithSlug(data_file', slug) :
                   /\ data_file'.records[i].cover = cover
                   /\ data_file'.records[i].presentation = PresentationRel(slug)
             /\ existing'[slug].cover = cover
      ]_vars

C31_Witness ==
    /\ pc \in {"head", "summary"}
    /\ outcomes # <<>>
    /\ Last(outcomes).branch = "oversized"
    /\ ~op.extracted
    /\ Last(successes) = Last(outcomes).file
    /\ \E i \in WithSlug(data_file, Last(outcomes).slug) :
          data_file.records[i].cover = DEFAULT_COVER

\* The characters of value that the substitution of line 389 keeps and
\* strip("-") cannot remove: letters, digits and underscores.
Surviving(value) == SelectSeq(value, LAMBDA c : IsWordOrHyphen(c) /\ c # "-")

\* The result is not empty, has no hyphen at either end and no two hyphens
\* in a row, and is made of small letters, digits, underscores and hyphens.
WellFormedSlug(slug) ==
    /\ slug # <<>>
    /\ slug[1] # "-"
    /\ slug[Len(slug)] # "-"
    /\ \A i \in 1..(Len(slug) - 1) : ~(slug[i] = "-" /\ slug[i + 1] = "-")
    /\ \A i \in 1..Len(slug) :
          IsLowerLetter(slug[i]) \/ IsDigit(slug[i]) \/ slug[i] \in {"_", "-"}

\* C32 as stated: the result of slugify is well formed, and it is "book"
\* exactly when no character of the input survives.
C32_BookIffNothingSurvives ==
    op.name = "slugify" =>
        /\ WellFormedSlug(op.result)
        /\ op.result = <<"b", "o", "o", "k">> <=> Surviving(op.arg) = <<>>

\* C32, amended: the result of slugify is well formed; it is "book" when no
\* character of the input survives, and otherwise it consists of the
\* surviving characters of the input, lowercased and in order, with single
\* hyphens between them; slugify("") = "book" and
\* slugify("Hello, World!") = "hello-world".
C32_SlugShape ==
    op.name = "slugify" =>
        /\ WellFormedSlug(op.result)
        /\ Surviving(op.arg) = <<>> => op.result = <<"b", "o", "o", "k">>
        /\ Surviving(op.arg) # <<>> =>
              SelectSeq(op.result, LAMBDA c : c # "-") = Lower(Surviving(op.arg))
        /\ op.arg = <<>> => op.result = <<"b", "o", "o", "k">>
        /\ op.arg = HelloWorld =>
              op.result = <<"h", "e", "l", "l", "o", "-", "w", "o", "r", "l", "d">>

C32_Witness ==
    /\ op.name = "slugify"
    /\ op.arg = HelloWorld
    /\ op.result = <<"h", "e", "l", "l", "o", "-", "w", "o", "r", "l", "d">>

\* C33: after a run has handled a file over the limit through
\* handle_large_pdf, should_skip of the following run without --force, with
\* the file, the manifest and the placeholder unchanged, returns True.
C33_OversizedSkippedOnRerun ==
    (op.name = "next run" /\ op.terminated.name = "handle_large_pdf") =>
        op.result = "true"

\* C34: once a file of the run has reached its outcome, every slug the run
\* has reached an outcome for has an entry in the in-memory map exactly when
\* the manifest file has one, and the two entries are equal field by field.
C34_MapMirrorsManifest ==
    pc \in {"head", "summary"} =>
        \A k \in 1..Len(outcomes) :
            LET slug == outcomes[k].slug
            IN  /\ slug \in DOMAIN existing <=> WithSlug(data_file, slug) # {}
                /\ \A i \in WithSlug(data_file, slug) :
                      slug \in DOMAIN existing =>
                          data_file.records[i] = existing[slug]

\* C35: when the run has ended, every file of the file set has exactly one
\* of the outcomes skipped, success and failure: the successes, the failures
\* (one line of the summary each) and the skipped files add up to the number
\* of files, and no file is both in the successes and in the failures.
C35_EveryFileOneOutcome ==
    pc \in {"done", "aborted"} =>
        /\ Len(successes) + Len(failures) + Cardinality(EndedIn({"skipped"}))
              = Len(pdf_files)
        /\ \A i \in 1..Len(successes), j \in 1..Len(failures) :
              successes[i] # failures[j].file

\* C36: when run_pipeline has returned, the "progress" list of its result
\* is exactly the sequence of messages the progress callback received during
\* the attempt: the same messages in the same order, with and without
\* --dry-run.
C36_LogIsWhatSinkReceived ==
    pc = "returned" =>
        /\ Len(op.progress_messages) = Len(op.progress_lines)
        /\ \A i \in 1..Len(op.progress_messages) :
              op.progress_messages[i] = op.progress_lines[i]

\* C37: in a run with --dry-run call_gemini is not invoked for any file,
\* whichever way the file goes and however many attempts are made, and every
\* file that was processed successfully has its presentation in storage and
\* an entry in the manifest.
C37_DryRunMakesNoModelCall ==
    args.dry_run =>
        /\ ai_calls = 0
        /\ pc \in {"head", "summary", "done"} =>
              \A k \in 1..Len(outcomes) :
                  outcomes[k].branch \in {"success", "oversized"} =>
                      /\ WithSlug(data_file, outcomes[k].slug) # {}
                      /\ PresentationRel(outcomes[k].slug) \in DOMAIN artifacts
                      /\ artifacts[PresentationRel(outcomes[k].slug)]
                            \in {"marked", "unmarked"}

\* a dry run in which a file succeeded at its second attempt
C37_Witness ==
    /\ args.dry_run
    /\ pc = "summary"
    /\ Last(outcomes).branch = "success"
    /\ attempts = 2
    /\ calls = 2
    /\ ai_calls = 0
    /\ WithSlug(data_file, Last(outcomes).slug) # {}
    /\ PresentationRel(Last(outcomes).slug) \in DOMAIN artifacts

====
